---- MODULE Spec2Model ----
(***************************************************************************)
(* Room-scoped WebSocket chat relay: the connection registry               *)
(* (app/websocket_manager.py) and the per-connection handler               *)
(* websocket_endpoint (app/main.py), run as cooperative asyncio tasks.     *)
(* A step of the model is the code one task runs between two suspension    *)
(* points (await): accept, a contended lock acquire, every send_json,      *)
(* the gather, receive_text.                                               *)
(***************************************************************************)
EXTENDS Integers, Sequences, FiniteSets, TLC

\* ---------------------------------------------------------------- bounds
MaxNew == 2          \* payloads the clients send in a run
MaxPre == 23         \* longest patterned messages table of the history check
MaxSmall == 2        \* longest arbitrary messages table of the history check

\* ------------------------------------------------------- program constants
HistoryLimit == 20   \* .limit(20)
PolicyViolation == 1008

Conns == {"c1", "c2", "c3"}
RoomIds == {1, 2, 3}             \* path parameter room_id
ExistingRooms == {1, 2}          \* rows of the rooms table
\* the token query parameter: absent, or a string with or without the
\* "Bearer " prefix whose JWT part decodes, fails to, or lacks sub/role
Tokens ==
  { [present |-> FALSE, bearer |-> FALSE, jwt |-> "badsig"],
    [present |-> TRUE, bearer |-> FALSE, jwt |-> "ok"],
    [present |-> TRUE, bearer |-> TRUE, jwt |-> "badsig"],
    [present |-> TRUE, bearer |-> TRUE, jwt |-> "nosub"],
    [present |-> TRUE, bearer |-> TRUE, jwt |-> "ok"] }
Payloads == {"hi"}
TieOrders == {"asc", "desc"}     \* order the database returns equal timestamps in
NoRoom == 0

\* connections are named in the order their handlers run the handshake,
\* and rooms 1 and 2 in the order they are first joined
Earlier(c) == CASE c = "c1" -> {} [] c = "c2" -> {"c1"} [] OTHER -> {"c1", "c2"}

UserOf(c) == CASE c = "c1" -> "alice" [] c = "c2" -> "bob" [] OTHER -> "carol"

VARIABLES
  pc,                  \* position of each connection's handler task
  hs,                  \* outcome of the handshake
  room,                \* room_id of a handler past the handshake
  close_code,          \* code of websocket.close, 0 when not called
  chan,                \* state of the client's channel
  exit,                \* how the handler task ended
  active_connections,  \* ConnectionManager.active_connections
  lock,                \* holder of ConnectionManager.lock, or "none"
  waiters,             \* FIFO of tasks waiting for the lock
  store,               \* rows of the messages table, in insertion order
  hist,                \* history rows still to send to each connection
  recv,                \* frames each client has received
  gather,              \* the broadcast each handler has in flight
  ever_joined          \* connections that were ever appended to the registry

vars == <<pc, hs, room, close_code, chan, exit, active_connections, lock,
          waiters, store, hist, recv, gather, ever_joined>>

\* ------------------------------------------------------------- sequences
Count(s, x) == Cardinality({i \in DOMAIN s : s[i] = x})

Counted(f, x) == [f EXCEPT ![x] = f[x] + 1]

Range(s) == {s[i] : i \in DOMAIN s}

Reverse(s) == [i \in 1..Len(s) |-> s[Len(s) + 1 - i]]

Take(s, n) == IF Len(s) <= n THEN s ELSE SubSeq(s, 1, n)

RECURSIVE RemoveFirst(_, _)
RemoveFirst(s, x) ==
  IF s = <<>> THEN <<>>
  ELSE IF Head(s) = x THEN Tail(s)
  ELSE <<Head(s)>> \o RemoveFirst(Tail(s), x)

\* ------------------------------------------------------------- auth.py
\* decode_token: "HTTPException", or "user" when the token yields a user
decode_token(token) ==
  IF ~token.bearer THEN "HTTPException"
  ELSE IF token.jwt = "badsig" THEN "HTTPException"
  ELSE IF token.jwt = "nosub" THEN "HTTPException"
  ELSE "user"

\* ------------------------------------------------- websocket_manager.py
Key(room_id) == ToString(room_id)

\* connect that replaces the room's list instead of appending to it
connect_overwrite(ac, room_id, websocket) ==
  [x \in DOMAIN ac \cup {Key(room_id)} |->
     IF x = Key(room_id) THEN <<websocket>> ELSE ac[x]]

\* connect that also records the connection under every room already present
connect_everywhere(ac, room_id, websocket) ==
  [x \in DOMAIN ac \cup {Key(room_id)} |->
     IF x \in DOMAIN ac THEN Append(ac[x], websocket) ELSE <<websocket>>]

\* the critical section of ConnectionManager.connect
connect(ac, room_id, websocket) ==
  LET k == Key(room_id)
      base == IF k \in DOMAIN ac
              THEN ac
              ELSE [x \in DOMAIN ac \cup {k} |->
                      IF x \in DOMAIN ac THEN ac[x] ELSE <<>>]
  IN [base EXCEPT ![k] = Append(@, websocket)]

\* disconnect that leaves the emptied list in the mapping
disconnect_keep_empty(ac, room_id, websocket) ==
  IF Key(room_id) \notin DOMAIN ac THEN ac
  ELSE [ac EXCEPT ![Key(room_id)] = RemoveFirst(@, websocket)]

\* the critical section of ConnectionManager.disconnect
disconnect(ac, room_id, websocket) ==
  LET k == Key(room_id) IN
  IF k \notin DOMAIN ac THEN ac
  ELSE LET removed == IF websocket \in Range(ac[k])
                      THEN RemoveFirst(ac[k], websocket)
                      ELSE ac[k]
       IN IF removed = <<>>
          THEN [x \in DOMAIN ac \ {k} |-> ac[x]]
          ELSE [ac EXCEPT ![k] = removed]

RECURSIVE Flatten(_, _)
Flatten(ac, keys) ==
  IF keys = {} THEN <<>>
  ELSE LET k == CHOOSE x \in keys : TRUE IN ac[k] \o Flatten(ac, keys \ {k})

\* broadcast that sends to the members of every room
broadcast_targets_all(ac, room_id) == Flatten(ac, DOMAIN ac)

\* the connections broadcast builds one send_json coroutine for
broadcast_targets(ac, room_id) ==
  IF Key(room_id) \in DOMAIN ac THEN ac[Key(room_id)] ELSE <<>>

\* a gather that drops the sends still to run once one has failed
gather_rest_cancel(pend, i, failed) == IF failed THEN {} ELSE pend \ {i}

\* asyncio.gather without return_exceptions: the sends still to run after
\* send i has finished; a failed send cancels none of the others
gather_rest(pend, i, failed) == pend \ {i}

\* a broadcast that does not wait for its sends
gather_returns_early(pend) == TRUE

\* await asyncio.gather(...) returns once every send has finished
gather_returns(pend) == pend = {}

\* ---------------------------------------------------------------- main.py
\* a handshake without the room lookup
handshake_no_room_check(token, room_id) ==
  IF ~token.present THEN "no_token"
  ELSE IF decode_token(token) = "HTTPException" THEN "bad_token"
  ELSE "ok"

\* the three handshake checks of websocket_endpoint, in code order
handshake(token, room_id) ==
  IF ~token.present THEN "no_token"
  ELSE IF decode_token(token) = "HTTPException" THEN "bad_token"
  ELSE IF room_id \notin ExistingRooms THEN "no_room"
  ELSE "ok"

\* ORDER BY timestamp DESC: x is returned before y
Before(x, y, tie) ==
  \/ x.timestamp > y.timestamp
  \/ /\ x.timestamp = y.timestamp
     /\ IF tie = "asc" THEN x.id <= y.id ELSE x.id >= y.id

RECURSIVE order_by_desc(_, _)
order_by_desc(S, tie) ==
  IF S = {} THEN <<>>
  ELSE LET m == CHOOSE x \in S : \A y \in S : Before(x, y, tie)
       IN <<m>> \o order_by_desc(S \ {m}, tie)

RoomRows(st, room_id) == {st[i] : i \in {j \in DOMAIN st : st[j].room_id = room_id}}

\* the history loop without reversed()
recent_messages_newest_first(st, room_id, tie) ==
  Take(order_by_desc(RoomRows(st, room_id), tie), HistoryLimit)

\* the rows the history loop iterates over: reversed(recent_messages)
recent_messages(st, room_id, tie) ==
  Reverse(Take(order_by_desc(RoomRows(st, room_id), tie), HistoryLimit))

\* a commit that returns without the row having been stored
commit_lost(st, msg) == st

\* db.add(new_message); db.commit(): the table after the commit
commit(st, msg) == Append(st, msg)

\* the JSON frame built from a row
envelope(msg) ==
  [username |-> msg.sender, content |-> msg.content, timestamp |-> msg.timestamp]

NoGather == [active |-> FALSE, msg |-> 0, snap |-> <<>>, pending |-> {},
             tried |-> [x \in Conns |-> 0], delivered |-> {}, failed |-> {}, exc |-> "none"]


\* datetime.utcnow() at line 268: the clock advances from one commit to the next
utcnow(st) == Len(st)

SendErrors == {"WebSocketDisconnect", "other"}  \* what a failed send_json raises

Init ==
  /\ pc = [c \in Conns |-> "accepted"]
  /\ hs = [c \in Conns |-> "pending"]
  /\ room = [c \in Conns |-> NoRoom]
  /\ close_code = [c \in Conns |-> 0]
  /\ chan = [c \in Conns |-> "open"]
  /\ exit = [c \in Conns |-> "none"]
  /\ active_connections = <<>>
  /\ lock = "none"
  /\ waiters = <<>>
  /\ store = <<>>
  /\ hist = [c \in Conns |-> <<>>]
  /\ recv = [c \in Conns |-> <<>>]
  /\ gather = [c \in Conns |-> NoGather]
  /\ ever_joined = {}

\* asyncio.Lock.acquire returns without suspending
LockFree == lock = "none" /\ waiters = <<>>

\* ---- fragments of websocket_endpoint ---------------------------------

\* manager.connect's critical section, then the history query, up to the
\* first await of the history loop (or of the receive loop)
Joined(c, r) ==
  /\ active_connections' = connect(active_connections, r, c)
  /\ ever_joined' = ever_joined \cup {c}
  /\ \E tie \in TieOrders :
       LET h == recent_messages(store, r, tie) IN
         /\ hist' = [hist EXCEPT ![c] = h]
         /\ pc' = [pc EXCEPT ![c] = IF h = <<>> THEN "recv" ELSE "replay"]

\* the handler returns or dies: finally db.close(), the server closes the socket
Ended(c, how) ==
  /\ pc' = [pc EXCEPT ![c] = "done"]
  /\ exit' = [exit EXCEPT ![c] = how]
  /\ chan' = [chan EXCEPT ![c] = "closed"]
  /\ hist' = [hist EXCEPT ![c] = <<>>]
  /\ recv' = [recv EXCEPT ![c] = <<>>]

\* an exception of kind `kind` reaches the try block of the handler:
\* except WebSocketDisconnect calls manager.disconnect, anything else
\* propagates past it; `free` says whether the lock can be taken at once
Raised(c, kind, free) ==
  IF kind = "WebSocketDisconnect"
  THEN IF free
       THEN /\ active_connections' = disconnect(active_connections, room[c], c)
            /\ Ended(c, "disconnect")
            /\ UNCHANGED waiters
       ELSE /\ waiters' = Append(waiters, c)
            /\ pc' = [pc EXCEPT ![c] = "wait_disc"]
            /\ UNCHANGED <<active_connections, exit, chan, hist, recv>>
  ELSE /\ Ended(c, kind)
       /\ UNCHANGED <<active_connections, waiters>>

\* manager.broadcast once the lock is held: one send_json task per member
Gathering(c, msg) ==
  LET snap == broadcast_targets(active_connections, room[c]) IN
  IF snap = <<>>
  THEN /\ pc' = [pc EXCEPT ![c] = "recv"]
       /\ gather' = [gather EXCEPT ![c] = NoGather]
       /\ UNCHANGED lock
  ELSE /\ pc' = [pc EXCEPT ![c] = "gather"]
       /\ lock' = c
       /\ gather' = [gather EXCEPT ![c] =
            [active |-> TRUE, msg |-> msg, snap |-> snap,
             pending |-> DOMAIN snap, tried |-> [x \in Conns |-> 0],
             delivered |-> {}, failed |-> {}, exc |-> "none"]]

\* ---- actions ----------------------------------------------------------

\* lines 229-244: a handshake check fails, close(code=1008), return
HandshakeReject(c) ==
  /\ pc[c] = "accepted"
  /\ \A e \in Earlier(c) : pc[e] # "accepted"
  /\ \E token \in Tokens, r \in RoomIds :
       /\ handshake(token, r) # "ok"
       /\ hs' = [hs EXCEPT ![c] = handshake(token, r)]
  /\ close_code' = [close_code EXCEPT ![c] = PolicyViolation]
  /\ Ended(c, "policy")
  /\ UNCHANGED <<room, active_connections, lock, waiters, store, gather,
                 ever_joined>>

\* lines 229-246: the handshake passes and manager.connect is called
HandshakeJoin(c) ==
  /\ pc[c] = "accepted"
  /\ \A e \in Earlier(c) : pc[e] # "accepted"
  /\ \E token \in Tokens, r \in RoomIds :
       /\ handshake(token, r) = "ok"
       /\ r = 2 => \E e \in Conns : room[e] = 1
       /\ hs' = [hs EXCEPT ![c] = "ok"]
       /\ room' = [room EXCEPT ![c] = r]
       /\ IF LockFree
          THEN /\ Joined(c, r)
               /\ UNCHANGED waiters
          ELSE /\ waiters' = Append(waiters, c)
               /\ pc' = [pc EXCEPT ![c] = "wait_connect"]
               /\ UNCHANGED <<active_connections, ever_joined, hist>>
  /\ UNCHANGED <<close_code, chan, exit, lock, store, recv, gather>>

\* the lock is handed to the first waiter, which is inside manager.connect
ConnectGranted(c) ==
  /\ pc[c] = "wait_connect"
  /\ lock = "none" /\ waiters # <<>> /\ Head(waiters) = c
  /\ waiters' = Tail(waiters)
  /\ Joined(c, room[c])
  /\ UNCHANGED <<hs, room, close_code, chan, exit, lock, store, recv, gather>>

\* lines 257-262: one history frame is sent
ReplaySend(c) ==
  /\ pc[c] = "replay"
  /\ chan[c] = "open"
  /\ recv' = [recv EXCEPT ![c] = Append(@,
        [kind |-> "history", id |-> Head(hist[c]).id, env |-> envelope(Head(hist[c]))])]
  /\ hist' = [hist EXCEPT ![c] = Tail(@)]
  /\ pc' = [pc EXCEPT ![c] = IF Tail(hist[c]) = <<>> THEN "recv" ELSE "replay"]
  /\ UNCHANGED <<hs, room, close_code, chan, exit, active_connections, lock,
                 waiters, store, gather, ever_joined>>

\* lines 257-262: send_json of a history frame raises
ReplayFail(c) ==
  /\ pc[c] = "replay"
  /\ chan[c] # "open"
  /\ \E kind \in SendErrors : Raised(c, kind, LockFree)
  /\ UNCHANGED <<hs, room, close_code, lock, store, gather, ever_joined>>

\* line 266: receive_text raises WebSocketDisconnect
RecvDisconnect(c) ==
  /\ pc[c] = "recv"
  /\ chan[c] # "open"
  /\ Raised(c, "WebSocketDisconnect", LockFree)
  /\ UNCHANGED <<hs, room, close_code, lock, store, gather, ever_joined>>

\* lines 266-270: a payload arrives and the sender lookup or commit raises
RecvPersistFail(c) ==
  /\ pc[c] = "recv"
  /\ chan[c] = "open"
  /\ Len(store) < MaxNew
  /\ Raised(c, "SQLAlchemyError", LockFree)
  /\ UNCHANGED <<hs, room, close_code, lock, store, gather, ever_joined>>

\* lines 266-278: a payload arrives, is committed, and manager.broadcast is called
RecvMessage(c) ==
  /\ pc[c] = "recv"
  /\ chan[c] = "open"
  /\ Len(store) < MaxNew
  /\ \E data \in Payloads :
       LET msg == [id |-> Len(store) + 1, room_id |-> room[c],
                   sender |-> UserOf(c), content |-> data,
                   timestamp |-> utcnow(store)]
       IN /\ store' = commit(store, msg)
          /\ IF LockFree
             THEN /\ Gathering(c, msg)
                  /\ UNCHANGED waiters
             ELSE /\ waiters' = Append(waiters, c)
                  /\ pc' = [pc EXCEPT ![c] = "wait_bcast"]
                  /\ gather' = [gather EXCEPT ![c] = [NoGather EXCEPT !.msg = msg]]
                  /\ UNCHANGED lock
  /\ UNCHANGED <<hs, room, close_code, chan, exit, active_connections, hist,
                 recv, ever_joined>>

\* the lock is handed to the first waiter, which is inside manager.broadcast
BroadcastGranted(c) ==
  /\ pc[c] = "wait_bcast"
  /\ lock = "none" /\ waiters # <<>> /\ Head(waiters) = c
  /\ waiters' = Tail(waiters)
  /\ Gathering(c, gather[c].msg)
  /\ UNCHANGED <<hs, room, close_code, chan, exit, active_connections, store,
                 hist, recv, ever_joined>>

\* line 33: one send_json task of a broadcast delivers its frame
SendOk(b, i) ==
  /\ gather[b].active
  /\ i \in gather[b].pending
  /\ LET m == gather[b].snap[i] IN
       /\ chan[m] = "open"
       /\ recv' = [recv EXCEPT ![m] = Append(@,
            [kind |-> "live", id |-> gather[b].msg.id, env |-> envelope(gather[b].msg)])]
       /\ gather' = [gather EXCEPT ![b] =
            [@ EXCEPT !.pending = gather_rest(@, i, FALSE),
                      !.tried = Counted(@, m),
                      !.delivered = @ \cup {m}]]
  /\ UNCHANGED <<pc, hs, room, close_code, chan, exit, active_connections,
                 lock, waiters, store, hist, ever_joined>>

\* line 33: one send_json task of a broadcast raises
SendFail(b, i) ==
  /\ gather[b].active
  /\ i \in gather[b].pending
  /\ LET m == gather[b].snap[i] IN
       /\ chan[m] # "open"
       /\ \E kind \in SendErrors :
            gather' = [gather EXCEPT ![b] =
              [@ EXCEPT !.pending = gather_rest(@, i, TRUE),
                        !.tried = Counted(@, m),
                        !.failed = @ \cup {m},
                        !.exc = IF @ = "none" THEN kind ELSE @]]
  /\ UNCHANGED <<pc, hs, room, close_code, chan, exit, active_connections,
                 lock, waiters, store, hist, recv, ever_joined>>

\* lines 29-35: every send succeeded; the lock is released and the loop goes on
GatherReturn(b) ==
  /\ pc[b] = "gather"
  /\ gather[b].exc = "none"
  /\ gather_returns(gather[b].pending)
  /\ lock' = "none"
  /\ pc' = [pc EXCEPT ![b] = "recv"]
  /\ gather' = [gather EXCEPT ![b] = IF @.pending = {} THEN NoGather ELSE @]
  /\ UNCHANGED <<hs, room, close_code, chan, exit, active_connections, waiters,
                 store, hist, recv, ever_joined>>

\* lines 29-35, 280-283: gather raises the first exception into the handler;
\* the lock is released on the way out
GatherRaise(b) ==
  /\ pc[b] = "gather"
  /\ gather[b].exc # "none"
  /\ lock' = "none"
  /\ Raised(b, gather[b].exc, waiters = <<>>)
  /\ UNCHANGED <<hs, room, close_code, store, gather, ever_joined>>

\* line 281: the lock is handed to the first waiter, which is inside manager.disconnect
DisconnectGranted(c) ==
  /\ pc[c] = "wait_disc"
  /\ lock = "none" /\ waiters # <<>> /\ Head(waiters) = c
  /\ waiters' = Tail(waiters)
  /\ active_connections' = disconnect(active_connections, room[c], c)
  /\ Ended(c, "disconnect")
  /\ UNCHANGED <<hs, room, close_code, lock, store, gather, ever_joined>>

\* the client goes away
PeerClose(c) ==
  /\ pc[c] \notin {"accepted", "done"}
  /\ chan[c] = "open"
  /\ chan' = [chan EXCEPT ![c] = "broken"]
  /\ UNCHANGED <<pc, hs, room, close_code, exit, active_connections, lock,
                 waiters, store, hist, recv, gather, ever_joined>>

Next ==
  \/ \E c \in Conns : HandshakeReject(c)
  \/ \E c \in Conns : HandshakeJoin(c)
  \/ \E c \in Conns : ConnectGranted(c)
  \/ \E c \in Conns : ReplaySend(c)
  \/ \E c \in Conns : ReplayFail(c)
  \/ \E c \in Conns : RecvDisconnect(c)
  \/ \E c \in Conns : RecvPersistFail(c)
  \/ \E c \in Conns : RecvMessage(c)
  \/ \E c \in Conns : BroadcastGranted(c)
  \/ \E b \in Conns : \E i \in gather[b].pending : SendOk(b, i)
  \/ \E b \in Conns : \E i \in gather[b].pending : SendFail(b, i)
  \/ \E b \in Conns : GatherReturn(b)
  \/ \E b \in Conns : GatherRaise(b)
  \/ \E c \in Conns : DisconnectGranted(c)
  \/ \E c \in Conns : PeerClose(c)

Spec == Init /\ [][Next]_vars


\* ---- the history query on messages tables left by earlier runs --------

OldUser == "zed"
RoomPatterns == {0, 2, 8}        \* every rp-th row belongs to room 2 (0: none)
ClockPatterns == {"asc", "desc", "same", "mod", "pairs"}

PatternStore(n, rp, tp) ==
  [i \in 1..n |->
     [id |-> i,
      room_id |-> IF rp # 0 /\ i % rp = 0 THEN 2 ELSE 1,
      sender |-> OldUser,
      content |-> "old",
      timestamp |-> CASE tp = "asc" -> i
                      [] tp = "desc" -> n - i
                      [] tp = "same" -> 0
                      [] tp = "mod" -> i % 3
                      [] OTHER -> i \div 2]]

SmallStores ==
  UNION { { [i \in 1..n |-> [id |-> i, room_id |-> f[i][1], sender |-> OldUser,
                             content |-> "old", timestamp |-> f[i][2]]]
            : f \in [1..n -> {1, 2} \X {0, 1}] }
          : n \in 0..MaxSmall }

HistoryStores ==
  SmallStores \cup
  {PatternStore(n, rp, tp) : n \in 0..MaxPre, rp \in RoomPatterns, tp \in ClockPatterns}

HistoryConns == {"c1"}

InitHistory ==
  /\ pc = [c \in Conns |-> "accepted"]
  /\ hs = [c \in Conns |-> "pending"]
  /\ room = [c \in Conns |-> NoRoom]
  /\ close_code = [c \in Conns |-> 0]
  /\ chan = [c \in Conns |-> "open"]
  /\ exit = [c \in Conns |-> "none"]
  /\ active_connections = <<>>
  /\ lock = "none"
  /\ waiters = <<>>
  /\ store \in HistoryStores
  /\ hist = [c \in Conns |-> <<>>]
  /\ recv = [c \in Conns |-> <<>>]
  /\ gather = [c \in Conns |-> NoGather]
  /\ ever_joined = {}

NextHistory ==
  \/ \E c \in HistoryConns : HandshakeReject(c)
  \/ \E c \in HistoryConns : HandshakeJoin(c)
  \/ \E c \in HistoryConns : ReplaySend(c)
  \/ \E c \in HistoryConns : ReplayFail(c)
  \/ \E c \in HistoryConns : RecvDisconnect(c)
  \/ \E c \in HistoryConns : PeerClose(c)

SpecHistory == InitHistory /\ [][NextHistory]_vars


\* ---- properties --------------------------------------------------------

\* ------------------------------------------------- the registry on its own
\* ConnectionManager as a component: any caller may call connect and
\* disconnect with any room and any connection, in any order.

\* entries the registry may hold in this specification
MaxEntries == 4

\* the number of entries of the registry
Entries(ac) == Len(Flatten(ac, DOMAIN ac))

\* await manager.connect(room_id, websocket) by any caller; the lock is free
\* and the critical section has no await
ApiConnect(room_id, websocket) ==
  /\ LockFree
  /\ Entries(active_connections) < MaxEntries
  /\ active_connections' = connect(active_connections, room_id, websocket)
  /\ UNCHANGED <<pc, hs, room, close_code, chan, exit, lock, waiters, store,
                 hist, recv, gather, ever_joined>>

\* await manager.disconnect(room_id, websocket) by any caller
ApiDisconnect(room_id, websocket) ==
  /\ LockFree
  /\ active_connections' = disconnect(active_connections, room_id, websocket)
  /\ UNCHANGED <<pc, hs, room, close_code, chan, exit, lock, waiters, store,
                 hist, recv, gather, ever_joined>>

NextRegistry ==
  \/ \E r \in RoomIds, c \in Conns : ApiConnect(r, c)
  \/ \E r \in RoomIds, c \in Conns : ApiDisconnect(r, c)

SpecRegistry == Init /\ [][NextRegistry]_vars

MembersOf(room_id) ==
  IF Key(room_id) \in DOMAIN active_connections
  THEN active_connections[Key(room_id)] ELSE <<>>

Registered(c) == \E k \in DOMAIN active_connections : c \in Range(active_connections[k])

Min(a, b) == IF a <= b THEN a ELSE b

IsHistory(e) == e.kind = "history"
IsLive(e) == e.kind = "live"

\* C1: while a broadcast to room R runs, the connections it builds sends for
\* are exactly the registered members of R, each once; every send that has
\* finished is one attempt on its connection, so that a finished broadcast
\* has made one attempt per member; no connection of another room is
\* among the targets or is attempted.
C1_OneAttemptPerMember ==
  \A b \in Conns :
    gather[b].active =>
      LET g == gather[b] IN
        /\ pc[b] = "gather" => g.snap = MembersOf(room[b])
        /\ \A m \in Conns :
             /\ Count(g.snap, m) = IF m \in Range(g.snap) THEN 1 ELSE 0
             /\ g.tried[m] = Cardinality({i \in DOMAIN g.snap \ g.pending : g.snap[i] = m})
             /\ room[m] # room[b] => m \notin Range(g.snap) /\ g.tried[m] = 0

\* a finished broadcast to two members while a connection sits in another room
C1_Witness ==
  \E b \in Conns :
    /\ pc[b] = "gather"
    /\ gather[b].pending = {}
    /\ Len(gather[b].snap) = 2
    /\ b \in Range(gather[b].snap)
    /\ \A m \in Range(gather[b].snap) : gather[b].tried[m] = 1
    /\ \E o \in Conns : room[o] \notin {NoRoom, room[b]} /\ Registered(o)

C3_HistoryBeforeLive ==
  \A c \in Conns :
    /\ pc[c] = "replay" => \A k \in DOMAIN recv[c] : IsHistory(recv[c][k])
    /\ \A j, k \in DOMAIN recv[c] :
         j < k /\ IsLive(recv[c][j]) => ~IsHistory(recv[c][k])

\* the ids of the history of c: the frames received followed by those still to send
HistoryIds(c) ==
  LET got == SelectSeq(recv[c], IsHistory) IN
  [i \in 1..(Len(got) + Len(hist[c])) |->
     IF i <= Len(got) THEN got[i].id ELSE hist[c][i - Len(got)].id]

\* C4: a connection that joined room R when the room had N rows is sent
\* min(N, 20) history frames: rows of R only, none twice, in ascending
\* timestamp order, none older than a row of R left out, each as the
\* envelope of its row; the replay has sent them all when the receive loop starts.
C4_HistoryReplay ==
  \A c \in Conns :
    pc[c] \in {"replay", "recv"} =>
      LET ids == HistoryIds(c)
          rows == RoomRows(store, room[c])
          got == SelectSeq(recv[c], IsHistory)
      IN /\ Len(ids) = Min(Cardinality(rows), HistoryLimit)
         /\ \A i \in DOMAIN ids : ids[i] \in DOMAIN store /\ store[ids[i]].room_id = room[c]
         /\ \A i, j \in DOMAIN ids :
              i < j => /\ ids[i] # ids[j]
                       /\ store[ids[i]].timestamp <= store[ids[j]].timestamp
         /\ \A x \in rows :
              x.id \notin Range(ids) =>
                \A i \in DOMAIN ids : x.timestamp <= store[ids[i]].timestamp
         /\ \A i \in DOMAIN got : got[i].env = envelope(store[ids[i]])
         /\ pc[c] = "recv" => hist[c] = <<>> /\ Len(got) = Len(ids)

\* a replay of 20 frames from a room of more than 20 rows, with rows of
\* another room in the table and timestamps out of insertion order
C4_Witness ==
  \E c \in Conns :
    /\ pc[c] = "recv"
    /\ Len(SelectSeq(recv[c], IsHistory)) = HistoryLimit
    /\ Cardinality(RoomRows(store, room[c])) > HistoryLimit
    /\ \E i \in DOMAIN store : store[i].room_id # room[c]
    /\ \E i, j \in DOMAIN store : i < j /\ store[i].timestamp > store[j].timestamp

\* C5: a connection whose handshake failed was closed with code 1008 and
\* was never appended to the registry; every connection ever appended passed
\* the token checks and then the room lookup, and was not closed by the
\* handshake; the room lookup is reached only by a token that decodes.
C5_RejectedNeverJoins ==
  /\ \A c \in Conns :
       /\ hs[c] \in {"no_token", "bad_token", "no_room"} =>
            /\ close_code[c] = PolicyViolation
            /\ c \notin ever_joined
            /\ ~Registered(c)
       /\ (c \in ever_joined \/ Registered(c)) =>
            /\ hs[c] = "ok"
            /\ room[c] \in ExistingRooms
            /\ close_code[c] = 0
  /\ \A token \in Tokens, r \in RoomIds :
       /\ handshake(token, r) = "no_room" =>
            token.present /\ decode_token(token) # "HTTPException"
       /\ handshake(token, r) = "bad_token" => token.present

\* the three ways to fail the handshake have all happened
C5_Witness ==
  /\ \E c \in Conns : hs[c] = "no_token" /\ pc[c] = "done"
  /\ \E c \in Conns : hs[c] = "bad_token" /\ pc[c] = "done"
  /\ \E c \in Conns : hs[c] = "no_room" /\ pc[c] = "done"

\* C6: every key of active_connections maps to a non-empty list, and a
\* room is a key exactly when some connection is in its list.
C6_NoEmptyRoom ==
  /\ \A k \in DOMAIN active_connections : active_connections[k] # <<>>
  /\ \A r \in RoomIds :
       Key(r) \in DOMAIN active_connections <=> \E c \in Conns : c \in Range(MembersOf(r))

\* the only member of a room has joined and left, and the room is no key
C6_Witness ==
  \E c \in Conns :
    /\ c \in ever_joined
    /\ exit[c] = "disconnect"
    /\ \A d \in Conns \ {c} : room[d] # room[c]
    /\ Key(room[c]) \notin DOMAIN active_connections

\* C7: the registry is the outcome of the connects and disconnects that
\* have completed, whatever their interleaving: a connection is in the list
\* of its room exactly once when its connect has completed and its
\* disconnect has not, and in no list otherwise.
C7_RegistrySerial ==
  \A c \in Conns, r \in RoomIds :
    Count(MembersOf(r), c) =
      IF c \in ever_joined /\ room[c] = r /\ exit[c] # "disconnect" THEN 1 ELSE 0

\* a join and a leave of the same room have completed while another
\* registry operation is queued on the lock
C7_Witness ==
  \E c, d \in Conns :
    /\ c # d
    /\ room[c] = room[d]
    /\ d \in ever_joined /\ exit[d] = "disconnect"
    /\ Registered(c)
    /\ waiters # <<>>

\* C8: once a broadcast has returned, no connection it failed to deliver
\* to is still registered.
C8_FailedRecipientRemoved ==
  \A b \in Conns :
    gather[b].active /\ pc[b] # "gather" =>
      \A m \in gather[b].failed : ~Registered(m)

\* C9: a sender whose broadcast failed on other connections only is still
\* in its send loop and still registered.
C9_SenderUnaffected ==
  \A b \in Conns :
    gather[b].active /\ gather[b].failed # {} /\ b \notin gather[b].failed =>
      /\ pc[b] \in {"gather", "recv", "wait_bcast"}
      /\ Registered(b)

\* C10: a connection whose handler has ended is in no room's list.
C10_EndedNotRegistered ==
  \A c \in Conns : pc[c] = "done" => ~Registered(c)

\* C11: a message is handed to a broadcast only once its row is in the
\* table: the message of every broadcast, queued on the lock or sending, and
\* every live frame a connection holds, is a stored row with that content;
\* the payload of a failed commit makes no broadcast at all.
C11_PersistThenBroadcast ==
  /\ \A b \in Conns :
       (gather[b].active \/ pc[b] = "wait_bcast") =>
         /\ gather[b].msg.id \in DOMAIN store
         /\ store[gather[b].msg.id] = gather[b].msg
  /\ \A c \in Conns : \A k \in DOMAIN recv[c] :
       IsLive(recv[c][k]) =>
         /\ recv[c][k].id \in DOMAIN store
         /\ recv[c][k].env = envelope(store[recv[c][k].id])
  /\ \A c \in Conns : exit[c] = "SQLAlchemyError" => ~gather[c].active

\* a member other than the sender holds the live frame of a stored row, and
\* another handler was ended by a failed commit
C11_Witness ==
  \E b, m, f \in Conns :
    /\ m # b
    /\ gather[b].active
    /\ m \in gather[b].delivered
    /\ \E k \in DOMAIN recv[m] : IsLive(recv[m][k]) /\ recv[m][k].id = gather[b].msg.id
    /\ exit[f] = "SQLAlchemyError"

\* C12: a handler whose commit failed is still streaming and still
\* registered.
C12_PersistFailureKeepsStreaming ==
  \A c \in Conns :
    exit[c] = "SQLAlchemyError" =>
      /\ pc[c] \in {"recv", "wait_bcast", "gather"}
      /\ Registered(c)

\* C13: a connect call for a connection that is already a member of some
\* room leaves the registry unchanged.
C13_JoinFailsForMember ==
  [][\A r \in RoomIds, c \in Conns :
       Registered(c) /\ ApiConnect(r, c) => UNCHANGED active_connections]_vars

\* C14: disconnect for a connection that is not in the room's list, or for a
\* room with no entry, leaves the registry unchanged, and a second
\* disconnect after a first changes nothing more.
C14_LeaveIdempotent ==
  \A r \in RoomIds, c \in Conns :
    LET once == disconnect(active_connections, r, c) IN
      /\ c \notin Range(MembersOf(r)) => once = active_connections
      /\ disconnect(once, r, c) = once

\* C15: no send of a broadcast is in progress while the registry lock is
\* held.
C15_SendsOutsideLock ==
  (\E b \in Conns : gather[b].active /\ gather[b].pending # {}) => lock = "none"

\* the room keys under which the registry records c
RoomsOf(c) == {k \in DOMAIN active_connections : c \in Range(active_connections[k])}

\* C16: driven by the gateway, a connection is recorded under at most one
\* room, at most once there, that room is the one it joined with, and the
\* room of a connection never changes once it has one.
C16_OneRoomForLife ==
  /\ [](\A c \in Conns :
          /\ Cardinality(RoomsOf(c)) <= 1
          /\ \A k \in RoomsOf(c) :
               k = Key(room[c]) /\ Count(active_connections[k], c) = 1)
  /\ [][\A c \in Conns : room[c] # NoRoom => room'[c] = room[c]]_vars

\* both rooms have members, three connections are recorded, and one of
\* them shares its room with another
C16_Witness ==
  /\ DOMAIN active_connections = {Key(1), Key(2)}
  /\ \A c \in Conns : Cardinality(RoomsOf(c)) = 1
  /\ \E c, d \in Conns : c # d /\ RoomsOf(c) = RoomsOf(d)

\* C17: the payloads of one sender keep their order: a handler is back at
\* receive_text only when no send of its broadcast is outstanding, the
\* message it is broadcasting is its latest row, its rows carry
\* non-decreasing timestamps, and a connection that holds two live frames of
\* the same sender holds them in the order of their rows.
C17_SenderOrder ==
  /\ \A b \in Conns :
       /\ pc[b] = "recv" => gather[b].pending = {}
       /\ (gather[b].active \/ pc[b] = "wait_bcast") =>
            \A i \in DOMAIN store :
              store[i].sender = UserOf(b) => i <= gather[b].msg.id
  /\ \A i, j \in DOMAIN store :
       i < j /\ store[i].sender = store[j].sender =>
         store[i].timestamp <= store[j].timestamp
  /\ \A c \in Conns : \A j, k \in DOMAIN recv[c] :
       /\ j < k
       /\ IsLive(recv[c][j]) /\ IsLive(recv[c][k])
       /\ recv[c][j].env.username = recv[c][k].env.username
       => recv[c][j].id < recv[c][k].id

\* a connection holds two live frames of another connection, in order
C17_Witness ==
  \E b, c \in Conns :
    /\ b # c
    /\ \E j, k \in DOMAIN recv[c] :
         /\ j < k
         /\ IsLive(recv[c][j]) /\ IsLive(recv[c][k])
         /\ recv[c][j].env.username = UserOf(b)
         /\ recv[c][k].env.username = UserOf(b)
         /\ recv[c][j].id < recv[c][k].id

\* C18: a connection that holds the live frames of two messages of
\* different senders holds them in the order in which the rows were
\* committed.
C18_RoomOrder ==
  \A c \in Conns : \A j, k \in DOMAIN recv[c] :
    /\ j < k
    /\ IsLive(recv[c][j]) /\ IsLive(recv[c][k])
    /\ recv[c][j].env.username # recv[c][k].env.username
    => recv[c][j].id < recv[c][k].id

\* C19: a connection holds at most one frame of a stored message, be it a
\* history frame or a live frame.
C19_AtMostOnce ==
  \A c \in Conns : \A j, k \in DOMAIN recv[c] :
    j # k => recv[c][j].id # recv[c][k].id

====
